---- MODULE Spec2Model ----
(***************************************************************************)
(* The chat server of src/main.py: the ConnectionManager singleton         *)
(* (active_connections, users, messages, groups) and one coroutine per     *)
(* websocket running websocket_endpoint.  The server runs on one asyncio   *)
(* event loop, so a coroutine runs without interruption from one `await`   *)
(* to the next; every action below is one such uninterrupted stretch.      *)
(* The awaits are websocket.accept(), websocket.receive_text() and every   *)
(* send_text() of a fan-out.  Clients are the environment: they register,  *)
(* open sockets, send text frames and go away; a run is bounded by the     *)
(* number of these inputs.  A client goes away only once its socket has    *)
(* been accepted.                                                          *)
(***************************************************************************)
EXTENDS Integers, Sequences, FiniteSets, TLC

\* ---------------------------------------------------------------- bounds
MaxConns == 3            \* websockets opened in one run
MaxInputs == 4           \* client inputs in one run: sockets opened, sockets closed, frames sent

Users == {"a", "b", "c"} \* usernames appearing in /ws/{username}, /register and receivers
GroupNames == {"g"}      \* group names appearing in create_group / join_group
Conns == 1..MaxConns     \* identities of WebSocket objects (one coroutine each)

\* ------------------------------------------------------- python dict model
\* active_connections is a CPython dict: an insertion-ordered entry array in
\* which `del` leaves a hole, a new key is appended and an existing key is
\* overwritten in place.  (No resize compacts the array here: a dict created
\* empty has room for 5 insertions and at most MaxConns keys are inserted.)
NoEntry == [key |-> "", val |-> 0]

LiveIdx(d) == {i \in 1..Len(d) : d[i] # NoEntry}
Keys(d) == {d[i].key : i \in LiveIdx(d)}
Values(d) == {d[i].val : i \in LiveIdx(d)}
DictLen(d) == Cardinality(LiveIdx(d))
IdxOf(d, k) == CHOOSE i \in LiveIdx(d) : d[i].key = k
GetItem(d, k) == d[IdxOf(d, k)].val
SetItem(d, k, v) ==
    IF k \in Keys(d) THEN [d EXCEPT ![IdxOf(d, k)].val = v]
    ELSE Append(d, [key |-> k, val |-> v])
DelItem(d, k) == [d EXCEPT ![IdxOf(d, k)] = NoEntry]

\* iter(d.values()) and next(): the iterator remembers the dict's size and its
\* position in the entry array, and counts the items it still expects.
NoIter == [used |-> 0, pos |-> 1, len |-> 0]
NewIter(d) == [used |-> DictLen(d), pos |-> 1, len |-> DictLen(d)]
IterNext(d, it) ==
    LET rest == {i \in LiveIdx(d) : i >= it.pos}
        i == CHOOSE j \in rest : \A k \in rest : j <= k
    IN  IF it.used # DictLen(d) THEN [tag |-> "RuntimeError", val |-> 0, it |-> it]
        ELSE IF rest = {} THEN [tag |-> "StopIteration", val |-> 0, it |-> it]
        ELSE IF it.len = 0 THEN [tag |-> "RuntimeError", val |-> 0, it |-> it]
        ELSE [tag |-> "item", val |-> d[i].val,
              it |-> [used |-> it.used, pos |-> i + 1, len |-> it.len - 1]]


\* ------------------------------------------------------------------ state
VARIABLES
    active_connections,  \* manager.active_connections: dict username -> WebSocket
    users,               \* manager.users: the registered usernames
    messages,            \* manager.messages: dict username -> dict peer -> list of Message
    groups,              \* manager.groups: dict group name -> Group
    pc,                  \* where each websocket's coroutine is suspended
    uname,               \* the {username} path parameter of each websocket
    closed,              \* the websocket's transport is gone (peer closed it, or its coroutine ended)
    frame,               \* the locals of each coroutine while it is suspended in a send
    ninputs,             \* client inputs so far (opens, closes, text frames)
    fan,                 \* history: the fan-out each coroutine started last (the handles
                         \* registered for it at its start, the handles whose send returned)
    outbox,              \* history: the payloads that reached each websocket's client
    origin,              \* history: for each input, the websocket it was a text frame of (else 0)
    replaced             \* history: the websockets a later connect() of their username replaced

vars == <<active_connections, users, messages, groups, pc, uname, closed, frame,
          ninputs, fan, outbox, origin, replaced>>

MAIN == "main"                         \* the receiver that addresses everybody
GroupAddr(g) == "group:" \o g          \* the receiver string "group:<g>"
GroupAddrs == {GroupAddr(g) : g \in GroupNames}
StartsWithGroup(r) == r \in GroupAddrs                        \* receiver.startswith("group:")
Slice6(r) == CHOOSE g \in GroupNames : GroupAddr(g) = r       \* receiver[6:]

NoPayload == [type |-> "none"]
ChatPayload(sender, content, receiver) ==
    [type |-> "chat", sender |-> sender, content |-> content, receiver |-> receiver]
SystemPayload(u) == [type |-> "system", left |-> u]   \* content "<u> left the chat"
MessageOf(sender, receiver, content) ==
    [sender |-> sender, receiver |-> receiver, content |-> content]
GroupOf(name, members) == [name |-> name, members |-> members]

NoFrame == [payload |-> NoPayload, cur |-> 0, it |-> NoIter, gname |-> "",
            glist |-> <<>>, glive |-> FALSE, gpos |-> 1, exc |-> ""]
NoFan == [kind |-> "none", snap |-> {}, wrote |-> <<>>, status |-> "done", old |-> {}]
NewFan(kind, snap) ==
    [kind |-> kind, snap |-> snap, wrote |-> <<>>, status |-> "running", old |-> replaced]

Init ==
    /\ active_connections = <<>>
    /\ users = {}
    /\ messages = <<>>
    /\ groups = <<>>
    /\ pc = [c \in Conns |-> "idle"]
    /\ uname = [c \in Conns |-> ""]
    /\ closed = [c \in Conns |-> FALSE]
    /\ frame = [c \in Conns |-> NoFrame]
    /\ ninputs = 0
    /\ fan = [c \in Conns |-> NoFan]
    /\ outbox = [c \in Conns |-> <<>>]
    /\ origin = <<>>
    /\ replaced = {}

\* The part of the state a coroutine's stretch of code can change, as one value.
World == [ac |-> active_connections, messages |-> messages, groups |-> groups,
          pc |-> pc, closed |-> closed, frame |-> frame, fan |-> fan, outbox |-> outbox]
SetWorld(w) ==
    /\ active_connections' = w.ac
    /\ messages' = w.messages
    /\ groups' = w.groups
    /\ pc' = w.pc
    /\ closed' = w.closed
    /\ frame' = w.frame
    /\ fan' = w.fan
    /\ outbox' = w.outbox


\* ------------------------------------------------- ConnectionManager methods
\* (every connect starts the username's threads afresh)
ConnectResetW(w, u, c) ==
    [w EXCEPT !.ac = SetItem(@, u, c),
              !.messages = [x \in DOMAIN @ \cup {u} |-> IF x = u THEN <<>> ELSE @[x]]]

\* (the first websocket of a username stays registered: setdefault)
ConnectKeepFirstW(w, u, c) ==
    [w EXCEPT !.ac = IF u \in Keys(@) THEN @ ELSE SetItem(@, u, c),
              !.messages = IF u \in DOMAIN @ THEN @ ELSE @ @@ (u :> <<>>)]

\* connect(), after `await websocket.accept()` has returned.
ConnectW(w, u, c) ==
    [w EXCEPT !.ac = SetItem(@, u, c),
              !.messages = IF u \in DOMAIN @ THEN @ ELSE @ @@ (u :> <<>>)]

\* (the list grows at its head instead of its tail)
PrependThread(m, x, y, msg) ==
    [m EXCEPT ![x] = IF y \in DOMAIN @ THEN [@ EXCEPT ![y] = <<msg>> \o @]
                     ELSE @ @@ (y :> <<msg>>)]

\* self.messages[x][y].append(msg), creating the list first when y is a new peer.
AppendThread(m, x, y, msg) ==
    [m EXCEPT ![x] = IF y \in DOMAIN @ THEN [@ EXCEPT ![y] = Append(@, msg)]
                     ELSE @ @@ (y :> <<msg>>)]

\* store_message(): the messages dict it leaves behind and the exception it
\* raises ("" when it returns).
StoreMessage(m, sender, receiver, content) ==
    LET msg == MessageOf(sender, receiver, content)
        m1 == AppendThread(m, sender, receiver, msg)
    IN  IF sender \notin DOMAIN m THEN [messages |-> m, exc |-> "KeyError"]
        ELSE IF receiver \notin DOMAIN m1 THEN [messages |-> m1, exc |-> "KeyError"]
        ELSE [messages |-> AppendThread(m1, receiver, sender, msg), exc |-> ""]

\* What `await ws.send_text(...)` can do on websocket h: an open transport takes
\* the text; on a transport that is gone the server either drops the text or
\* the call raises (WebSocketDisconnect or RuntimeError, by starlette version).
SendOutcomes(h) ==
    IF closed[h] THEN {"dropped", "WebSocketDisconnect", "RuntimeError"} ELSE {"ok"}

\* The suspended send of coroutine c completes with outcome o.
SendDoneW(w, c, o) ==
    LET h == w.frame[c].cur
        w1 == IF o = "ok" THEN [w EXCEPT !.outbox[h] = Append(@, w.frame[c].payload)]
              ELSE w
    IN  IF o \in {"ok", "dropped"} THEN [w1 EXCEPT !.fan[c].wrote = Append(@, h)] ELSE w1

\* -------------------------------------------------- websocket_endpoint paths
\* An exception nothing catches ends the coroutine; the server then closes
\* the websocket.  Nothing unregisters the username.
CrashW(w, c, e) ==
    [w EXCEPT !.pc[c] = "crashed", !.closed[c] = TRUE,
              !.frame[c] = [NoFrame EXCEPT !.exc = e],
              !.fan[c].status = "raised"]

\* Back at `await websocket.receive_text()`.
ToReceiveW(w, c) ==
    [w EXCEPT !.pc[c] = "recv", !.frame[c] = NoFrame, !.fan[c].status = "done"]

\* next() on the iterator of `for connection in self.active_connections.values()`.
BroadcastNextW(w, c) ==
    LET r == IterNext(w.ac, w.frame[c].it)
    IN  [w EXCEPT !.frame[c].it = r.it, !.frame[c].cur = r.val,
                  !.frame[c].exc = IF r.tag = "RuntimeError" THEN r.tag ELSE ""]

\* broadcast() called from the except clause: up to its next send, or to the
\* end of the coroutine.
LeaveLoopW(w, c) ==
    LET w1 == BroadcastNextW(w, c)
    IN  IF w1.frame[c].exc # "" THEN CrashW(w1, c, w1.frame[c].exc)
        ELSE IF w1.frame[c].cur = 0
        THEN [w1 EXCEPT !.pc[c] = "done", !.closed[c] = TRUE, !.frame[c] = NoFrame,
                        !.fan[c].status = "done"]
        ELSE [w1 EXCEPT !.pc[c] = "leave"]

\* disconnect(): `del self.active_connections[username]`.
DisconnectDict(d, u) == DelItem(d, u)

\* except WebSocketDisconnect: disconnect(username), then the "left the chat"
\* broadcast up to its first send.
DisconnectW(w, c) ==
    LET u == uname[c]
        d == DisconnectDict(w.ac, u)
        w1 == [w EXCEPT !.ac = d,
                        !.frame[c] = [NoFrame EXCEPT !.payload = SystemPayload(u),
                                                      !.it = NewIter(d)],
                        !.fan[c] = NewFan("system", Values(d))]
    IN  IF u \notin Keys(w.ac) THEN CrashW(w, c, "KeyError") ELSE LeaveLoopW(w1, c)

\* An exception raised inside the try block.
RaiseW(w, c, e) ==
    IF e = "WebSocketDisconnect" THEN DisconnectW(w, c) ELSE CrashW(w, c, e)

\* broadcast() called for receiver "main": up to its next send.
BroadcastLoopW(w, c) ==
    LET w1 == BroadcastNextW(w, c)
    IN  IF w1.frame[c].exc # "" THEN RaiseW(w1, c, w1.frame[c].exc)
        ELSE IF w1.frame[c].cur = 0 THEN ToReceiveW(w1, c)
        ELSE [w1 EXCEPT !.pc[c] = "bcast"]

\* The list `for member in self.groups[group_name].members` walks: the list
\* object of the Group it started on, which join_group appends to in place and
\* create_group replaces by a new object.
MembersSeen(w, c) ==
    IF w.frame[c].glive THEN w.groups[w.frame[c].gname].members ELSE w.frame[c].glist

\* send_to_group(): from the loop's current index up to the next send.
GroupLoopW(w, c) ==
    LET ms == MembersSeen(w, c)
        online == {i \in w.frame[c].gpos..Len(ms) : ms[i] \in Keys(w.ac)}
        i == CHOOSE j \in online : \A k \in online : j <= k
    IN  IF online = {} THEN ToReceiveW(w, c)
        ELSE [w EXCEPT !.pc[c] = "group", !.frame[c].gpos = i + 1,
                       !.frame[c].cur = GetItem(w.ac, ms[i])]

\* store_message() after the direct send, then back to the receive.
StoreW(w, c) ==
    LET p == w.frame[c].payload
        r == StoreMessage(w.messages, p.sender, p.receiver, p.content)
        w1 == [w EXCEPT !.messages = r.messages]
    IN  IF r.exc # "" THEN RaiseW(w1, c, r.exc) ELSE ToReceiveW(w1, c)

\* (the payload goes back out on the sender's own websocket)
DirectEchoW(w, c) == [w EXCEPT !.pc[c] = "direct", !.frame[c].cur = c]

\* send_personal_message() then store_message(), up to the send if there is one.
DirectW(w, c) ==
    LET r == w.frame[c].payload.receiver
    IN  IF r \in Keys(w.ac)
        THEN [w EXCEPT !.pc[c] = "direct", !.frame[c].cur = GetItem(w.ac, r)]
        ELSE StoreW(w, c)


\* manager.groups[name] = Group(name=name, members=[username]).  A send_to_group
\* loop that is walking the replaced Group keeps the old list object.
CreateGroupW(w, c, g) ==
    LET grp == GroupOf(g, <<uname[c]>>)
        walking(d) == w.pc[d] = "group" /\ w.frame[d].glive /\ w.frame[d].gname = g
    IN  [w EXCEPT !.groups = [x \in DOMAIN @ \cup {g} |-> IF x = g THEN grp ELSE @[x]],
                  !.frame = [d \in Conns |->
                                IF walking(d)
                                THEN [@[d] EXCEPT !.glist = w.groups[g].members,
                                                  !.glive = FALSE]
                                ELSE @[d]]]

\* if name in manager.groups: manager.groups[name].members.append(username)
JoinGroupW(w, c, g) ==
    IF g \in DOMAIN w.groups
    THEN [w EXCEPT !.groups[g].members = Append(@, uname[c])]
    ELSE w

\* json.loads(data): the decoded object, or a JSONDecodeError.
JsonLoads(data) ==
    IF data.wellformed THEN [exc |-> "", obj |-> data.obj]
    ELSE [exc |-> "JSONDecodeError", obj |-> <<>>]

\* The handles a fan-out that starts now addresses (history only).
GroupTargets(w, g) ==
    IF g \in DOMAIN w.groups
    THEN {GetItem(w.ac, w.groups[g].members[i]) :
            i \in {j \in 1..Len(w.groups[g].members) : w.groups[g].members[j] \in Keys(w.ac)}}
    ELSE {}
DirectTargets(w, r) == IF r \in Keys(w.ac) THEN {GetItem(w.ac, r)} ELSE {}

\* The `chat` branch, once the payload has been built.
ChatW(w, c, receiver, content) ==
    LET u == uname[c]
        p == ChatPayload(u, content, receiver)
        g == Slice6(receiver)
    IN  IF receiver = MAIN
        THEN BroadcastLoopW([w EXCEPT !.frame[c] = [NoFrame EXCEPT !.payload = p,
                                                                     !.it = NewIter(w.ac)],
                                      !.fan[c] = NewFan("main", Values(w.ac))], c)
        ELSE IF StartsWithGroup(receiver)
        THEN IF g \in DOMAIN w.groups
             THEN GroupLoopW([w EXCEPT !.frame[c] = [NoFrame EXCEPT !.payload = p,
                                                                      !.gname = g,
                                                                      !.glive = TRUE],
                                       !.fan[c] = NewFan("group", GroupTargets(w, g))], c)
             ELSE ToReceiveW([w EXCEPT !.fan[c] = NewFan("group", {})], c)
        ELSE DirectW([w EXCEPT !.frame[c] = [NoFrame EXCEPT !.payload = p],
                               !.fan[c] = NewFan("direct", DirectTargets(w, receiver))], c)

\* One pass of the `while True` body on the text frame `data`, up to the next
\* await (the next receive, or the first send of a fan-out).
HandleW(w, c, data) ==
    LET j == JsonLoads(data)
        m == j.obj
        w0 == [w EXCEPT !.fan[c] = [NoFan EXCEPT !.kind = "frame"]]
        has(k) == k \in DOMAIN m
    IN  IF j.exc # "" THEN RaiseW(w0, c, j.exc)
        ELSE IF ~has("type") THEN RaiseW(w0, c, "KeyError")
        ELSE IF m.type = "chat"
        THEN IF ~has("receiver") \/ ~has("content") THEN RaiseW(w0, c, "KeyError")
             ELSE ChatW(w0, c, m.receiver, m.content)
        ELSE IF m.type = "create_group"
        THEN IF ~has("group_name") THEN RaiseW(w0, c, "KeyError")
             ELSE ToReceiveW(CreateGroupW(w0, c, m.group_name), c)
        ELSE IF m.type = "join_group"
        THEN IF ~has("group_name") THEN RaiseW(w0, c, "KeyError")
             ELSE ToReceiveW(JoinGroupW(w0, c, m.group_name), c)
        ELSE ToReceiveW(w0, c)

\* A suspended send returns or raises, and the coroutine runs on to its next await.
ResumeW(w, c, o) ==
    LET w1 == SendDoneW(w, c, o)
    IN  IF o \in {"WebSocketDisconnect", "RuntimeError"}
        THEN IF w.pc[c] = "leave" THEN CrashW(w1, c, o) ELSE RaiseW(w1, c, o)
        ELSE CASE w.pc[c] = "bcast" -> BroadcastLoopW(w1, c)
               [] w.pc[c] = "leave" -> LeaveLoopW(w1, c)
               [] w.pc[c] = "group" -> GroupLoopW(w1, c)
               [] w.pc[c] = "direct" -> StoreW(w1, c)

\* The text frames a client sends as its n-th: every well-formed event, an
\* undecodable text, and objects with a required key missing.
Receivers == {MAIN} \cup GroupAddrs \cup Users
ChatFrame(r, n) ==
    [wellformed |-> TRUE, obj |-> [type |-> "chat", receiver |-> r, content |-> n]]
GroupFrame(t, g) == [wellformed |-> TRUE, obj |-> [type |-> t, group_name |-> g]]
MalformedFrames(n) ==
    {[wellformed |-> TRUE, obj |-> [type |-> "chat", content |-> n]],
     [wellformed |-> FALSE, obj |-> <<>>]}
Frames(n) ==
    {ChatFrame(r, n) : r \in Receivers}
    \cup {GroupFrame(t, g) : t \in {"create_group", "join_group"}, g \in GroupNames}
    \cup {[wellformed |-> TRUE, obj |-> [type |-> "typing"]]}
    \cup MalformedFrames(n)

\* GET /online_users: manager.users[username] for every key of
\* active_connections; the list of usernames, or the KeyError of the lookup.
GetOnlineUsers ==
    IF \E u \in Keys(active_connections) : u \notin users
    THEN [exc |-> "KeyError", online |-> {}]
    ELSE [exc |-> "", online |-> Keys(active_connections)]

\* ---------------------------------------------------------------- actions
\* POST /register
Register(u) ==
    /\ ninputs < MaxInputs
    /\ ninputs' = ninputs + 1
    /\ users' = (IF u \in users THEN users ELSE users \cup {u})
    /\ origin' = Append(origin, 0)
    /\ UNCHANGED <<active_connections, messages, groups, pc, uname, closed, frame,
                   fan, outbox, replaced>>

\* A client opens /ws/{u}: the coroutine starts and waits in websocket.accept().
Open(c, u) ==
    /\ pc[c] = "idle"
    /\ \A d \in Conns : d < c => pc[d] # "idle"
    /\ ninputs < MaxInputs
    /\ ninputs' = ninputs + 1
    /\ pc' = [pc EXCEPT ![c] = "accept"]
    /\ origin' = Append(origin, 0)
    /\ uname' = [uname EXCEPT ![c] = u]
    /\ UNCHANGED <<active_connections, users, messages, groups, closed, frame,
                   fan, outbox, replaced>>

\* accept() returns; connect() registers the websocket; the loop reaches its receive.
Accept(c) ==
    /\ pc[c] = "accept"
    /\ SetWorld([ConnectW(World, uname[c], c) EXCEPT !.pc[c] = "recv"])
    /\ replaced' = IF uname[c] \in Keys(active_connections)
                   THEN replaced \cup ({GetItem(active_connections, uname[c])} \ {c})
                   ELSE replaced
    /\ UNCHANGED <<users, uname, ninputs, origin>>

\* The client goes away (closes the socket, or its network drops).
ClientClose(c) ==
    /\ pc[c] \in {"recv", "bcast", "group", "direct"}
    /\ ~closed[c]
    /\ ninputs < MaxInputs
    /\ ninputs' = ninputs + 1
    /\ closed' = [closed EXCEPT ![c] = TRUE]
    /\ origin' = Append(origin, 0)
    /\ UNCHANGED <<active_connections, users, messages, groups, pc, uname, frame,
                   fan, outbox, replaced>>

\* receive_text() returns a text frame and the loop body runs.
Receive(c, data) ==
    /\ pc[c] = "recv"
    /\ ~closed[c]
    /\ ninputs < MaxInputs
    /\ ninputs' = ninputs + 1
    /\ origin' = Append(origin, c)
    /\ SetWorld(HandleW(World, c, data))
    /\ UNCHANGED <<users, uname, replaced>>

\* receive_text() raises WebSocketDisconnect.
ReceiveDisconnect(c) ==
    /\ pc[c] = "recv"
    /\ closed[c]
    /\ SetWorld(DisconnectW(World, c))
    /\ UNCHANGED <<users, uname, ninputs, origin, replaced>>

\* A suspended send_text() completes.
Resume(c, o) ==
    /\ pc[c] \in {"bcast", "group", "direct", "leave"}
    /\ o \in SendOutcomes(frame[c].cur)
    /\ SetWorld(ResumeW(World, c, o))
    /\ UNCHANGED <<users, uname, ninputs, origin, replaced>>

Next ==
    \/ \E u \in Users : Register(u)
    \/ \E c \in Conns, u \in Users : Open(c, u)
    \/ \E c \in Conns : Accept(c)
    \/ \E c \in Conns : ClientClose(c)
    \/ \E c \in Conns : \E data \in Frames(ninputs + 1) : Receive(c, data)
    \/ \E c \in Conns : ReceiveDisconnect(c)
    \/ \E c \in Conns : \E o \in {"ok", "dropped", "WebSocketDisconnect", "RuntimeError"} :
          Resume(c, o)

Spec == Init /\ [][Next]_vars

\* The websockets whose client has stopped reading: a send_text to one of them
\* may stay suspended for ever (the transport's buffer is full).
SlowPeers == {1}

\* What the event loop guarantees: a coroutine whose await can complete is
\* resumed.  accept() returns, a receive on a closed socket raises, and a send
\* to a peer that reads completes.  Nothing obliges a client to act, nor a send
\* to a slow peer to complete.
ResumeResponsive(c) ==
    \E o \in {"ok", "dropped", "WebSocketDisconnect", "RuntimeError"} :
        frame[c].cur \notin SlowPeers /\ Resume(c, o)
\* The coroutine of websocket c takes its next step when nothing but a slow
\* peer holds it up (pc[c] enables at most one of the three).
Proceed(c) == Accept(c) \/ ReceiveDisconnect(c) \/ ResumeResponsive(c)
Fairness == \A c \in Conns : WF_vars(Proceed(c))
FairSpec == Spec /\ Fairness


\* ------------------------------------------------------------- properties
\* messages[x][y] as GET /inbox/{x} shows it; no such thread reads as empty.
Thread(m, x, y) == IF x \in DOMAIN m /\ y \in DOMAIN m[x] THEN m[x][y] ELSE <<>>
EndsWith(s, e) == Len(s) > 0 /\ s[Len(s)] = e
IsOnline(u) == u \in Keys(active_connections)
NoDuplicates(s) == \A i, j \in 1..Len(s) : s[i] = s[j] => i = j
\* The sends of a fan-out went to each handle of `targets` once and nowhere else.
ExactlyOnce(wrote, targets) ==
    /\ NoDuplicates(wrote)
    /\ {wrote[i] : i \in 1..Len(wrote)} = targets
SendFailures == {"WebSocketDisconnect", "RuntimeError"}
\* Coroutine c enters the except clause in this step.
EntersExcept(c) ==
    \/ ReceiveDisconnect(c)
    \/ pc[c] \in {"bcast", "group", "direct"} /\ Resume(c, "WebSocketDisconnect")

\* C1: in every reachable state the thread A sees for peer B and the thread B
\* sees for peer A hold the same messages in the same order.
C1_ThreadsSymmetric ==
    \A A \in Users, B \in Users : Thread(messages, A, B) = Thread(messages, B, A)

\* C2: every direct chat event from a connected sender to any receiver name ends
\* with the message last in both views of the thread and with no error in the
\* sender's handler, whether or not it was delivered live.
C2_DirectAlwaysRecorded ==
    [][\A c \in Conns :
        /\ \A r \in Users :
              Receive(c, ChatFrame(r, ninputs + 1)) /\ pc'[c] # "direct"
              => /\ pc'[c] = "recv"
                 /\ EndsWith(Thread(messages', uname[c], r), MessageOf(uname[c], r, ninputs + 1))
                 /\ EndsWith(Thread(messages', r, uname[c]), MessageOf(uname[c], r, ninputs + 1))
        /\ \A o \in {"ok", "dropped"} \cup SendFailures :
              pc[c] = "direct" /\ Resume(c, o)
              => LET p == frame[c].payload
                     msg == MessageOf(p.sender, p.receiver, p.content)
                 IN  /\ pc'[c] = "recv"
                     /\ EndsWith(Thread(messages', p.sender, p.receiver), msg)
                     /\ EndsWith(Thread(messages', p.receiver, p.sender), msg)]_vars

\* C3: while the connections opened under a username have only connected and
\* disconnected, the registry holds at most one handle for it, and it is online
\* exactly when the connection opened last under it has not yet disconnected
\* (its handler is still in its receive loop).
OpenedUnder(u) == {c \in Conns : uname[c] = u /\ pc[c] \notin {"idle", "accept"}}
LastOpened(u) == CHOOSE c \in OpenedUnder(u) : \A d \in OpenedUnder(u) : d <= c
InLoop(c) == pc[c] \in {"recv", "bcast", "group", "direct"}
C3_OnlineIffLatestOpen ==
    \A u \in Users :
        (\A c \in OpenedUnder(u) : fan[c].kind \in {"none", "system"})
        => /\ Cardinality({i \in LiveIdx(active_connections) :
                              active_connections[i].key = u}) <= 1
           /\ IsOnline(u) <=> (OpenedUnder(u) # {} /\ InLoop(LastOpened(u)))

\* C4: disconnect(username) for a username with no registry entry raises
\* nothing, leaves the registry as it is, and the departure broadcast runs.
C4_DisconnectAbsentIsNoOp ==
    [][\A c \in Conns :
        EntersExcept(c) /\ ~IsOnline(uname[c])
        => /\ pc'[c] # "crashed"
           /\ active_connections' = active_connections
           /\ fan'[c].kind = "system"]_vars

\* C5: in every reachable state no username appears twice in a group's members.
C5_MembersUnique ==
    \A g \in DOMAIN groups : NoDuplicates(groups[g].members)

\* C6: a create_group naming a group that exists is a no-op, so every user who
\* was a member of the group before the event is a member after it.
Members(grp) == {grp.members[i] : i \in 1..Len(grp.members)}
C6_CreateExistingKeepsMembers ==
    [][\A c \in Conns, g \in GroupNames :
        g \in DOMAIN groups /\ Receive(c, GroupFrame("create_group", g))
        => Members(groups[g]) \subseteq Members(groups'[g])]_vars

\* C7: a chat to "main", once its handling has ended, has written the payload
\* exactly once to each handle registered when it started and to no other.
C7_BroadcastExactlyOnce ==
    \A c \in Conns :
        fan[c].kind = "main" /\ fan[c].status # "running"
        => ExactlyOnce(fan[c].wrote, fan[c].snap)

\* C8: a failed write in a broadcast or group fan-out is absorbed: the fan-out
\* goes on to the remaining handles (or ends normally), and the handler that
\* started it neither ends nor loses its registration.
C8_WriteFailureAbsorbed ==
    [][\A c \in Conns, o \in SendFailures :
        pc[c] \in {"bcast", "group"} /\ Resume(c, o)
        => /\ pc'[c] \in {"bcast", "group", "recv"}
           /\ IsOnline(uname[c]) => uname[c] \in Keys(active_connections')]_vars

\* C9: a chat to "group:<name>" that has been handled without an error has
\* written the payload exactly once to the handle of each member online when
\* it started and to no other handle (to nobody when no such group exists).
C9_GroupExactlyOnce ==
    \A c \in Conns :
        fan[c].kind = "group" /\ fan[c].status = "done"
        => ExactlyOnce(fan[c].wrote, fan[c].snap)

\* C10: when a handler observes the disconnect of u, u leaves the registry and
\* every connection still registered is written "u left the chat", the
\* disconnected handle itself is not.
C10_DepartureBroadcast ==
    /\ [][\A c \in Conns :
            ReceiveDisconnect(c)
            => uname[c] \notin Keys(active_connections') /\ fan'[c].kind = "system"]_vars
    /\ [](\A c \in Conns :
            fan[c].kind = "system"
            => /\ \A i \in 1..Len(fan[c].wrote) : fan[c].wrote[i] # c
               /\ fan[c].status # "running" => ExactlyOnce(fan[c].wrote, fan[c].snap))


\* C11: a malformed inbound event (undecodable, or with a required key missing)
\* fails only that event: the handler is back at its receive, the username
\* keeps its registration, and no registry or store has changed.
C11_MalformedOnlyDropsEvent ==
    [][\A c \in Conns :
        (\E data \in MalformedFrames(ninputs + 1) : Receive(c, data))
        => /\ pc'[c] = "recv"
           /\ active_connections' = active_connections
           /\ messages' = messages
           /\ groups' = groups
           /\ users' = users]_vars


\* C12: the direct messages one handler sends to one recipient reach each
\* websocket, and are appended to both views of the thread, in the order the
\* handler received them (contents are numbered in order of receipt).
InOrder(s) == \A i, j \in 1..Len(s) : i < j => s[i].content <= s[j].content
DirectBy(c, r, s) ==
    SelectSeq(s, LAMBDA p : p.type = "chat" /\ p.receiver = r /\ origin[p.content] = c)
StoredBy(c, r, s) ==
    SelectSeq(s, LAMBDA m : m.sender = uname[c] /\ m.receiver = r /\ origin[m.content] = c)
C13_OnlineUsersRegistered ==
    /\ Keys(active_connections) \subseteq users
    /\ GetOnlineUsers.exc = ""


\* C14: once a client's handler loop has ended, for whatever reason, its handle
\* is no longer in the connection registry (so no later fan-out writes to it).
LoopEnded(c) == pc[c] \in {"leave", "done", "crashed"}
C14_EndedHandlerUnregistered ==
    \A c \in Conns : LoopEnded(c) => c \notin Values(active_connections)


\* C15: a peer whose write blocks does not stall the others: a broadcast or
\* group fan-out that addresses a peer that reads eventually has written to
\* it (or has ended), even if its write to a slow peer never completes.
WroteTo(c, h) == \E i \in 1..Len(fan[c].wrote) : fan[c].wrote[i] = h
FanOutOwes(c, h) ==
    /\ fan[c].kind \in {"main", "group"}
    /\ fan[c].status = "running"
    /\ h \in fan[c].snap
    /\ ~WroteTo(c, h)
C15_SlowPeerDoesNotStall ==
    \A c \in Conns, h \in Conns \ SlowPeers : FanOutOwes(c, h) ~> ~FanOutOwes(c, h)


\* C16: once a second connect() of a username has replaced its websocket, no
\* fan-out (direct, group, broadcast or system) that starts afterwards sends to
\* the replaced websocket, or is suspended in a send to it; what it sends for
\* that username goes to the websocket that replaced it.
Sending(c) == pc[c] \in {"bcast", "group", "direct", "leave"}
C16_OldHandleNotWritten ==
    \A c \in Conns :
        /\ \A h \in fan[c].old : ~WroteTo(c, h)
        /\ Sending(c) => frame[c].cur \notin fan[c].old
C16_WrittenToNewHandle ==
    \E c \in Conns, h \in Conns, n \in Conns :
        /\ h \in fan[c].old
        /\ n \notin fan[c].old
        /\ uname[n] = uname[h]
        /\ WroteTo(c, n)
        /\ \E i \in 1..Len(outbox[n]) : outbox[n][i] = ChatPayload(uname[c], ninputs, MAIN)


\* C17: the conversation store is append-only across every step: whatever the
\* event (connect, reconnect, disconnect, chat, create_group, join_group,
\* register), every user keeps every thread, and each thread after the step
\* has the thread before it as a prefix; a reconnect does not reset history.
IsPrefix(s, t) == Len(s) <= Len(t) /\ SubSeq(t, 1, Len(s)) = s
C17_StoreAppendOnly ==
    [][/\ DOMAIN messages \subseteq DOMAIN messages'
       /\ \A u \in DOMAIN messages :
             /\ DOMAIN messages[u] \subseteq DOMAIN messages'[u]
             /\ \A p \in DOMAIN messages[u] : IsPrefix(messages[u][p], messages'[u][p])]_vars
\* A username reconnected after a message of its thread was stored, and the
\* thread still holds it.
C17_HistoryKeptOverReconnect ==
    \E h \in replaced, n \in Conns \ replaced, p \in Users :
        /\ uname[n] = uname[h]
        /\ GetItem(active_connections, uname[h]) = n
        /\ Thread(messages, uname[h], p) # <<>>
        /\ Thread(messages, uname[h], p)[1].content < ninputs
        /\ origin[ninputs] = 0
        /\ pc[n] = "recv"


\* C18: a broadcast that is suspended at a write while another handler
\* connects a new username or disconnects one goes on without raising: when
\* its write returns it moves to its next recipient or back to the receive,
\* and once it has ended every websocket that stayed registered from its start
\* has been sent the payload exactly once.
SentOnce(c, h) == Cardinality({i \in 1..Len(fan'[c].wrote) : fan'[c].wrote[i] = h}) = 1
C18_BroadcastSurvivesRegistryChange ==
    [][\A c \in Conns :
        pc[c] = "bcast" /\ (Resume(c, "ok") \/ Resume(c, "dropped"))
        => /\ pc'[c] \in {"bcast", "recv"}
           /\ pc'[c] = "recv"
              => \A h \in fan[c].snap \cap Values(active_connections') : SentOnce(c, h)]_vars


\* C19: each direct chat event that its handler gets through adds exactly one
\* message to the sender's view of the thread and exactly one to the
\* receiver's view; when sender and receiver are the same username that is
\* the one thread messages[u][u], which grows by exactly one entry.
\* Coroutine c runs store_message for receiver r in this step and returns to
\* its receive.
StoresDirect(c, r) ==
    /\ \/ Receive(c, ChatFrame(r, ninputs + 1))
       \/ /\ pc[c] = "direct"
          /\ frame[c].payload.receiver = r
          /\ (Resume(c, "ok") \/ Resume(c, "dropped"))
    /\ pc'[c] = "recv"
C19_OneMessagePerView ==
    [][\A c \in Conns, r \in Users :
        StoresDirect(c, r)
        => /\ Len(Thread(messages', uname[c], r)) = Len(Thread(messages, uname[c], r)) + 1
           /\ Len(Thread(messages', r, uname[c])) = Len(Thread(messages, r, uname[c])) + 1]_vars


\* C20: a direct chat event from A to username B is sent to at most one
\* websocket, the one registered for B when the event is handled, never to a
\* websocket of a third username nor back to A (unless A = B), and it leaves
\* the threads of every user other than A and B as they were.
\* Coroutine c takes a step of a direct chat event to B: the loop body up to the
\* send, or the send's return and store_message.
DirectStep(c, B) ==
    \/ Receive(c, ChatFrame(B, ninputs + 1))
    \/ /\ pc[c] = "direct"
       /\ frame[c].payload.receiver = B
       /\ \E o \in {"ok", "dropped"} \cup SendFailures : Resume(c, o)
C20_DirectOnlyToReceiver ==
    [][\A c \in Conns, B \in Users :
        DirectStep(c, B)
        => /\ \A h \in Conns :
                 outbox'[h] # outbox[h]
                 => /\ pc[c] = "direct"
                    /\ fan[c].snap = {h}
                    /\ uname[h] = B
                    /\ outbox'[h] = Append(outbox[h], frame[c].payload)
           /\ fan'[c].kind = "direct" => Len(fan'[c].wrote) <= 1
           /\ \A x \in Users \ {uname[c], B} :
                 Thread(messages', x, uname[c]) = Thread(messages, x, uname[c])
                 /\ Thread(messages', x, B) = Thread(messages, x, B)
                 /\ (x \in DOMAIN messages <=> x \in DOMAIN messages')
                 /\ (x \in DOMAIN messages => messages'[x] = messages[x])]_vars
\* A direct chat reached B's websocket and was stored while a third username
\* was online, whose websocket got nothing.
C20_DeliveredToReceiverOnly ==
    \E c \in Conns, h \in Conns, t \in Conns :
        /\ uname[h] # uname[c]
        /\ uname[t] \notin {uname[c], uname[h]}
        /\ t \in Values(active_connections)
        /\ c \in Values(active_connections)
        /\ fan[c].kind = "direct" /\ fan[c].status = "done" /\ fan[c].wrote = <<h>>
        /\ outbox[h] = <<ChatPayload(uname[c], ninputs, uname[h])>>
        /\ outbox[t] = <<>> /\ outbox[c] = <<>>
        /\ Len(Thread(messages, uname[c], uname[h])) = 1
        /\ Thread(messages, uname[t], uname[c]) = <<>>

====
